---- MODULE Spec2Model ----
(***************************************************************************)
(* State-machine model of the LineChart component of src/lineChart.tsx:    *)
(* the useMemo normalizer (chartData), the chart effect that builds the    *)
(* ECharts option and applies it, the resize listener, the unmount         *)
(* cleanup and the render output (placeholder or chart surface).           *)
(***************************************************************************)
EXTENDS Integers, Sequences, FiniteSets, TLC

\* Largest number of records in an input of the pipeline specification.
MaxLen == 2
\* Largest number of input changes (new `data` props) of one mounted component.
MaxChanges == 3

(***************************************************************************)
(* Values of the input type DataPoint.  Every property value of a record   *)
(* is one of: the key is absent, a bare number, null, or a reading object. *)
(* All four are records of one shape so that they can be compared.         *)
(***************************************************************************)
Absent == [kind |-> "absent", value |-> <<>>, timestamp |-> 0, status |-> ""]
BareNumber == [kind |-> "number", value |-> <<>>, timestamp |-> 0, status |-> ""]
NullValue == [kind |-> "null", value |-> <<>>, timestamp |-> 0, status |-> ""]
Reading(v, t, s) == [kind |-> "object", value |-> v, timestamp |-> t, status |-> s]

\* The readings the inputs are drawn from: two timestamps, every status of
\* the color table and one outside it, three numeric texts and one that
\* parseFloat cannot read.  The `value` text is a sequence of characters.
Readings ==
    { Reading(<<"1", "0">>, 1000, "GOOD"),
      Reading(<<"2", "0">>, 1000, "ERROR"),
      Reading(<<"3", "0">>, 2000, "WARNING"),
      Reading(<<"a", "b", "c">>, 2000, "UNKNOWN_STATUS") }

FieldValues == {Absent, BareNumber, NullValue} \cup Readings

\* The keys of a record other than `category`, in the order Object.entries
\* lists them.
MetricKeys == <<"cpu", "mem">>

DataPoints == [category : {1}, cpu : FieldValues, mem : FieldValues]

\* The arrays of at most n elements of S.
SeqsUpTo(S, n) == UNION {[1..k -> S] : k \in 0..n}

\* The `data` prop: absent (undefined) or an array of records.
NoData == [present |-> FALSE, items |-> <<>>]
DataOf(items) == [present |-> TRUE, items |-> items]

(***************************************************************************)
(* Numbers as the chart holds them: a number, NaN, or null (the gap        *)
(* marker of an aligned data array).                                       *)
(***************************************************************************)
Num(n) == [t |-> "num", n |-> n]
NaN == [t |-> "nan", n |-> 0]
Null == [t |-> "null", n |-> 0]

Digits == {"0", "1", "2", "3", "4", "5", "6", "7", "8", "9"}
DigitVal(c) ==
    CASE c = "0" -> 0 [] c = "1" -> 1 [] c = "2" -> 2 [] c = "3" -> 3
      [] c = "4" -> 4 [] c = "5" -> 5 [] c = "6" -> 6 [] c = "7" -> 7
      [] c = "8" -> 8 [] c = "9" -> 9

\* The value of the longest prefix of digits of text[i..], acc being the
\* value of the digits read so far; `seen` tells whether a digit was read.
RECURSIVE ParseDigits(_, _, _, _)
ParseDigits(text, i, acc, seen) ==
    IF i <= Len(text) /\ text[i] \in Digits
    THEN ParseDigits(text, i + 1, acc * 10 + DigitVal(text[i]), TRUE)
    ELSE IF seen THEN Num(acc) ELSE NaN

RECURSIVE SkipSpaces(_, _)
SkipSpaces(text, i) ==
    IF i <= Len(text) /\ text[i] = " " THEN SkipSpaces(text, i + 1) ELSE i

\* parseFloat on texts without a fraction or an exponent: leading blanks and
\* a sign are skipped, the longest run of digits is the value, anything
\* after it is ignored, and a text without a leading digit gives NaN.
ParseFloat(text) ==
    LET i == SkipSpaces(text, 1)
        neg == i <= Len(text) /\ text[i] = "-"
        j == IF i <= Len(text) /\ text[i] \in {"-", "+"} THEN i + 1 ELSE i
        r == ParseDigits(text, j, 0, FALSE)
    IN IF neg /\ r.t = "num" THEN Num(0 - r.n) ELSE r

(***************************************************************************)
(* The normalizer: chartData = useMemo(..., [data]).                       *)
(* A Map is a sequence of entries [name, values] in insertion order.       *)
(***************************************************************************)
NullChartData == [isNull |-> TRUE, entries |-> <<>>]
MapOf(entries) == [isNull |-> FALSE, entries |-> entries]

MapHas(entries, name) == \E i \in 1..Len(entries) : entries[i].name = name
MapIndex(entries, name) == CHOOSE i \in 1..Len(entries) : entries[i].name = name
MapGet(entries, name) == entries[MapIndex(entries, name)].values

\* typeof metricData === "object" && metricData !== null
IsReadingNoNullTest(metricData) == metricData.kind \in {"object", "null"}
IsReading(metricData) == metricData.kind = "object"

\* const { category, ...metrics } = item; Object.entries(metrics)
RECURSIVE EntriesFrom(_, _)
EntriesFrom(item, k) ==
    IF k > Len(MetricKeys) THEN <<>>
    ELSE LET rest == EntriesFrom(item, k + 1)
         IN IF item[MetricKeys[k]].kind = "absent" THEN rest
            ELSE <<[name |-> MetricKeys[k], metricData |-> item[MetricKeys[k]]]>> \o rest
ObjectEntries(item) == EntriesFrom(item, 1)

\* One normalized sample pushed on a metric's array.
Sample(metricData) ==
    [timestamp |-> metricData.timestamp,
     value |-> ParseFloat(metricData.value),
     status |-> metricData.status]

\* if (!metricsMap.has(name)) metricsMap.set(name, []); metricsMap.get(name).push(s)
PushSample(entries, name, s) ==
    LET withKey == IF MapHas(entries, name) THEN entries
                   ELSE Append(entries, [name |-> name, values |-> <<>>])
    IN [withKey EXCEPT ![MapIndex(withKey, name)].values = Append(@, s)]

\* The inner forEach over the entries of one record.
RECURSIVE AddEntries(_, _, _)
AddEntries(entries, es, k) ==
    IF k > Len(es) THEN entries
    ELSE AddEntries(IF IsReading(es[k].metricData)
                    THEN PushSample(entries, es[k].name, Sample(es[k].metricData))
                    ELSE entries,
                    es, k + 1)

\* data.forEach((item) => ...)
RECURSIVE AddRecords(_, _, _)
AddRecords(entries, items, i) ==
    IF i > Len(items) THEN entries
    ELSE AddRecords(AddEntries(entries, ObjectEntries(items[i]), 1), items, i + 1)

\* The comparator of values.sort: a.timestamp - b.timestamp.
CompareTimestamp(a, b) == a.timestamp - b.timestamp

\* Array.prototype.sort is stable: x goes after every element that does not
\* compare greater than it.
RECURSIVE InsertUnstable(_, _)
InsertUnstable(sorted, x) ==
    IF sorted = <<>> THEN <<x>>
    ELSE IF CompareTimestamp(Head(sorted), x) >= 0 THEN <<x>> \o sorted
         ELSE <<Head(sorted)>> \o InsertUnstable(Tail(sorted), x)
RECURSIVE InsertStable(_, _)
InsertStable(sorted, x) ==
    IF sorted = <<>> THEN <<x>>
    ELSE IF CompareTimestamp(Head(sorted), x) > 0 THEN <<x>> \o sorted
         ELSE <<Head(sorted)>> \o InsertStable(Tail(sorted), x)

RECURSIVE SortFrom(_, _, _)
SortFrom(sorted, values, k) ==
    IF k > Len(values) THEN sorted
    ELSE SortFrom(InsertStable(sorted, values[k]), values, k + 1)
SortByTimestamp(values) == SortFrom(<<>>, values, 1)

\* metricsMap.forEach((values) => values.sort(...))
SortAll(entries) ==
    [i \in 1..Len(entries) |->
        [name |-> entries[i].name, values |-> SortByTimestamp(entries[i].values)]]

\* The body of the useMemo callback.
Normalize(data) ==
    IF ~data.present \/ Len(data.items) = 0 THEN NullChartData
    ELSE MapOf(SortAll(AddRecords(<<>>, data.items, 1)))

(***************************************************************************)
(* The chart spec builder: the body of the chart effect, lines 72-182.     *)
(***************************************************************************)
\* Set.prototype.add: a value already in the set keeps its place.
SetAdd(set, x) == IF \E i \in 1..Len(set) : set[i] = x THEN set ELSE Append(set, x)

RECURSIVE AddValuesTimestamps(_, _, _)
AddValuesTimestamps(set, values, k) ==
    IF k > Len(values) THEN set
    ELSE AddValuesTimestamps(SetAdd(set, values[k].timestamp), values, k + 1)

\* chartData.forEach((values) => values.forEach((item) => allTimestamps.add(...)))
RECURSIVE AllTimestamps(_, _, _)
AllTimestamps(set, entries, i) ==
    IF i > Len(entries) THEN set
    ELSE AllTimestamps(AddValuesTimestamps(set, entries[i].values, 1), entries, i + 1)

RECURSIVE InsertNumber(_, _)
InsertNumber(sorted, x) ==
    IF sorted = <<>> THEN <<x>>
    ELSE IF Head(sorted) - x > 0 THEN <<x>> \o sorted
         ELSE <<Head(sorted)>> \o InsertNumber(Tail(sorted), x)

RECURSIVE SortNumbersFrom(_, _, _)
SortNumbersFrom(sorted, xs, k) ==
    IF k > Len(xs) THEN sorted
    ELSE SortNumbersFrom(InsertNumber(sorted, xs[k]), xs, k + 1)

\* Array.from(allTimestamps).sort((a, b) => a - b)
SortedTimestamps(entries) == SortNumbersFrom(<<>>, AllTimestamps(<<>>, entries, 1), 1)

\* The result of a lookup that may be undefined.
Undefined == [found |-> FALSE, item |-> [timestamp |-> 0, value |-> Null, status |-> ""]]
Found(item) == [found |-> TRUE, item |-> item]

MaxOf(S) == CHOOSE x \in S : \A y \in S : y <= x
MinOf(S) == CHOOSE x \in S : \A y \in S : x <= y

\* dataMap = new Map(metricData.map((item) => [item.timestamp, item])) then
\* dataMap.get(timestamp): of the items with one key the last one stays.
DataMapGet(metricData, timestamp) ==
    LET at == {k \in 1..Len(metricData) : metricData[k].timestamp = timestamp}
    IN IF at = {} THEN Undefined ELSE Found(metricData[MaxOf(at)])

\* metricData.find((item) => item.timestamp === timestamp): the first one.
ArrayFind(metricData, timestamp) ==
    LET at == {k \in 1..Len(metricData) : metricData[k].timestamp = timestamp}
    IN IF at = {} THEN Undefined ELSE Found(metricData[MinOf(at)])

\* metricData[index], index counted from 0.
ArrayAt(metricData, index) ==
    IF index >= 0 /\ index < Len(metricData) THEN Found(metricData[index + 1]) ELSE Undefined

\* Position of the last timestamp of the timeline not after position p that
\* the metric has a sample at (0 when there is none).
LastSampledUpTo(metricData, sortedTimestamps, p) ==
    LET at == {q \in 1..p : DataMapGet(metricData, sortedTimestamps[q]).found}
    IN IF at = {} THEN 0 ELSE MaxOf(at)

\* An aligned array that repeats the last value over a gap.
AlignedDataCarryForward(metricData, sortedTimestamps) ==
    [p \in 1..Len(sortedTimestamps) |->
        LET q == LastSampledUpTo(metricData, sortedTimestamps, p)
        IN IF q = 0 THEN Null
           ELSE DataMapGet(metricData, sortedTimestamps[q]).item.value]

\* data: sortedTimestamps.map((timestamp) => dataPoint ? dataPoint.value : null)
AlignedData(metricData, sortedTimestamps) ==
    [p \in 1..Len(sortedTimestamps) |->
        LET dataPoint == DataMapGet(metricData, sortedTimestamps[p])
        IN IF dataPoint.found THEN dataPoint.item.value ELSE Null]

DefaultColor == "#1890ff"

\* statusColors[status] || "#1890ff"
StatusColor(status) ==
    CASE status = "GOOD" -> "#52c41a"
      [] status = "WARNING" -> "#faad14"
      [] status = "ERROR" -> "#f5222d"
      [] OTHER -> DefaultColor

\* itemStyle.color: (params) => ... of the series built from metricData.
ItemColor(metricData, dataIndex) ==
    LET dataPoint == ArrayAt(metricData, dataIndex)
    IN IF ~dataPoint.found THEN DefaultColor ELSE StatusColor(dataPoint.item.status)

\* One series descriptor.  Its color callback closes over metricData, the
\* array chartData holds under the series name.
SeriesOf(entry, sortedTimestamps) ==
    [name |-> entry.name,
     data |-> AlignedData(entry.values, sortedTimestamps)]

NoOption == [built |-> FALSE, xAxis |-> <<>>, legend |-> <<>>, series |-> <<>>]

\* The option object of lines 116-182.  xAxis holds the timestamps the axis
\* labels are formatted from.  The callbacks of the option close over the
\* chartData it was built from, which is the chartData of the latest render.
BuildOption(entries) ==
    LET sortedTimestamps == SortedTimestamps(entries)
    IN [built |-> TRUE,
        xAxis |-> sortedTimestamps,
        legend |-> [i \in 1..Len(entries) |-> entries[i].name],
        series |-> [i \in 1..Len(entries) |-> SeriesOf(entries[i], sortedTimestamps)]]

\* The line the formatter adds for one param: none when find gives undefined.
TooltipLineNoGapTest(entries, timestamp, param) ==
    LET dataPoint == ArrayFind(MapGet(entries, param.seriesName), timestamp)
    IN <<[seriesName |-> param.seriesName,
          value |-> dataPoint.item.value,
          status |-> dataPoint.item.status]>>
TooltipLine(entries, timestamp, param) ==
    LET dataPoint == ArrayFind(MapGet(entries, param.seriesName), timestamp)
    IN IF dataPoint.found
       THEN <<[seriesName |-> param.seriesName,
               value |-> dataPoint.item.value,
               status |-> dataPoint.item.status]>>
       ELSE <<>>

RECURSIVE TooltipLines(_, _, _, _)
TooltipLines(entries, timestamp, params, k) ==
    IF k > Len(params) THEN <<>>
    ELSE TooltipLine(entries, timestamp, params[k]) \o TooltipLines(entries, timestamp, params, k + 1)

EmptyTooltip == [empty |-> TRUE, date |-> 0, lines |-> <<>>]

\* tooltip.formatter of the option built from entries.  The result is the
\* date the first line is formatted from and the lines that follow it.
Formatter(entries, option, params) ==
    IF Len(params) = 0 THEN EmptyTooltip
    ELSE LET timestamp == option.xAxis[params[1].dataIndex + 1]
         IN [empty |-> FALSE,
             date |-> timestamp,
             lines |-> TooltipLines(entries, timestamp, params, 1)]

\* With trigger: "axis" the formatter gets one param per series, all at the
\* hovered axis position.
AxisParams(option, dataIndex) ==
    [i \in 1..Len(option.series) |->
        [seriesName |-> option.series[i].name, dataIndex |-> dataIndex]]

(***************************************************************************)
(* The component.                                                          *)
(***************************************************************************)
VARIABLES
    phase,            \* "init" before the mount, "mounted", "unmounted"
    data,             \* the `data` prop of the latest render
    changes,          \* number of input changes since the mount
    chartData,        \* the memoized result of the normalizer
    shown,            \* what the latest render returned: "none", "placeholder", "chart"
    chartRef,         \* chartRef.current is the chart div (TRUE) or null (FALSE)
    chartInstanceRef, \* chartInstanceRef.current: 0 for null, else the instance
    instances,        \* the instances echarts.init has made, in order
    listeners,        \* the resize listeners registered on the window
    cleanup,          \* the cleanup function the chart effect returned last
    applied,          \* the setOption call of the latest commit
    resized,          \* the instances the latest resize event reached
    everNonEmpty,     \* some input since the mount had a non-empty mapping
    usedAfterDispose, \* setOption or resize was called on a disposed instance
    callback          \* the call of a callback of the applied option that is
                      \* in progress, with the value it returns

vars == <<phase, data, changes, chartData, shown, chartRef, chartInstanceRef,
          instances, listeners, cleanup, applied, resized, everNonEmpty,
          usedAfterDispose, callback>>

\* The inputs of the lifecycle specification: no data, an empty array, and
\* every one-record array whose record has at most the key cpu.
LifecycleInputs ==
    {NoData, DataOf(<<>>)}
        \cup {DataOf(<<r>>) : r \in {p \in DataPoints : p.mem = Absent}}

\* The inputs of the pipeline specification.
PipelineInputs == {DataOf(items) : items \in SeqsUpTo(DataPoints, MaxLen)}

NoCleanup == [has |-> FALSE, handler |-> [chart |-> 0, run |-> 0]]
NoApplied == [called |-> FALSE, instance |-> 0, surface |-> "none", disposed |-> FALSE,
              option |-> NoOption]
NoCallback == [kind |-> "none", series |-> 0, dataIndex |-> 0, color |-> "",
               tooltip |-> EmptyTooltip]

InitWith(inputs) ==
    /\ phase = "init"
    /\ data \in inputs
    /\ changes = 0
    /\ chartData = NullChartData
    /\ shown = "none"
    /\ chartRef = FALSE
    /\ chartInstanceRef = 0
    /\ instances = <<>>
    /\ listeners = <<>>
    /\ cleanup = NoCleanup
    /\ applied = NoApplied
    /\ resized = <<>>
    /\ everNonEmpty = FALSE
    /\ usedAfterDispose = FALSE
    /\ callback = NoCallback

Init == InitWith(LifecycleInputs)
InitPipeline == InitWith(PipelineInputs)

\* if (!chartData || chartData.size === 0) return <placeholder>
ShowsPlaceholder(cd) == cd.isNull \/ Len(cd.entries) = 0

\* The guard of the chart effect is passed: !(!chartRef.current || !chartData).
\* An empty Map is an object, so it is not "no chartData".
EffectProceedsNoRefTest(ref, cd) == ~cd.isNull
EffectProceeds(ref, cd) == ref /\ ~cd.isNull

\* if (!chartInstanceRef.current) chartInstanceRef.current = echarts.init(...)
NeedsInitAlways(instanceRef) == TRUE
NeedsInit(instanceRef) == instanceRef = 0

\* window.removeEventListener("resize", handleResize)
RECURSIVE RemoveFirst(_, _)
RemoveFirst(ls, h) ==
    IF ls = <<>> THEN <<>>
    ELSE IF Head(ls) = h THEN Tail(ls)
         ELSE <<Head(ls)>> \o RemoveFirst(Tail(ls), h)
RemoveEventListenerNoop(ls, h) == ls
RemoveEventListener(ls, h) == RemoveFirst(ls, h)

\* The dependency [chartData] of the chart effect changed between two
\* renders (Object.is): every recomputation gives a new Map, null stays null.
DepsChanged(old, new) == ~(old.isNull /\ new.isNull)

\* React replaced the chart by the placeholder in this commit: the children
\* ECharts put into the chart div are gone.
ReplaceSurface(insts, wasShown, nowShown) ==
    IF wasShown = "chart" /\ nowShown = "placeholder"
    THEN [i \in 1..Len(insts) |-> [insts[i] EXCEPT !.surface = "replaced"]]
    ELSE insts

\* A commit of a render with the prop d: the render (useMemo, the returned
\* element), the update of chartRef, the cleanup of the previous run of the
\* chart effect and the chart effect itself.  `first` is the mount.
Commit(d, first) ==
    /\ data' = d
    /\ chartData' = Normalize(d)
    /\ shown' = IF ShowsPlaceholder(chartData') THEN "placeholder" ELSE "chart"
    /\ chartRef' = (shown' = "chart")
    /\ everNonEmpty' = (everNonEmpty \/ ~ShowsPlaceholder(chartData'))
    /\ LET rerun == first \/ DepsChanged(chartData, chartData')
           proceeds == rerun /\ EffectProceeds(chartRef', chartData')
           init == proceeds /\ NeedsInit(chartInstanceRef)
           insts1 == ReplaceSurface(instances, shown, shown')
           ls1 == IF rerun /\ cleanup.has
                  THEN RemoveEventListener(listeners, cleanup.handler)
                  ELSE listeners
       IN /\ instances' = IF init
                          THEN Append(insts1, [surface |-> "live", disposeCalls |-> 0])
                          ELSE insts1
          /\ chartInstanceRef' = IF init THEN Len(instances') ELSE chartInstanceRef
          /\ applied' = IF proceeds
                        THEN [called |-> TRUE,
                              instance |-> chartInstanceRef',
                              surface |-> instances'[chartInstanceRef'].surface,
                              disposed |-> instances'[chartInstanceRef'].disposeCalls > 0,
                              option |-> BuildOption(chartData'.entries)]
                        ELSE NoApplied
          /\ usedAfterDispose' = (usedAfterDispose \/ applied'.disposed)
          /\ cleanup' = IF ~rerun THEN cleanup
                        ELSE IF proceeds
                             THEN [has |-> TRUE,
                                   handler |-> [chart |-> chartInstanceRef',
                                                run |-> IF first THEN 0 ELSE changes + 1]]
                             ELSE NoCleanup
          /\ listeners' = IF proceeds THEN Append(ls1, cleanup'.handler) ELSE ls1

\* JavaScript runs one task at a time: nothing else starts while a callback
\* of the option is running.
Idle == callback.kind = "none"

\* The component is mounted with the prop it was created with.
Mount ==
    /\ phase = "init"
    /\ Commit(data, TRUE)
    /\ phase' = "mounted"
    /\ UNCHANGED <<changes, resized, callback>>

\* The parent passes a new `data` array.
SetData ==
    /\ phase = "mounted"
    /\ Idle
    /\ changes < MaxChanges
    /\ \E d \in LifecycleInputs : Commit(d, FALSE)
    /\ changes' = changes + 1
    /\ UNCHANGED <<phase, resized, callback>>

\* The window fires "resize": every registered handleResize calls
\* chart.resize() on the instance it closed over.
Resize ==
    /\ Idle
    /\ resized' = [i \in 1..Len(listeners) |-> listeners[i].chart]
    /\ usedAfterDispose' =
         (usedAfterDispose
            \/ \E i \in 1..Len(listeners) : instances[listeners[i].chart].disposeCalls > 0)
    /\ UNCHANGED <<phase, data, changes, chartData, shown, chartRef, chartInstanceRef,
                   instances, listeners, cleanup, applied, everNonEmpty, callback>>

\* The cleanup of the second effect: dispose the instance and drop it.
DisposeNever(insts, instanceRef) == insts
Dispose(insts, instanceRef) ==
    IF instanceRef # 0
    THEN [insts EXCEPT ![instanceRef].disposeCalls = @ + 1]
    ELSE insts

\* The component is unmounted: chartRef is detached and the cleanups of both
\* effects run in the order of the effects.
Unmount ==
    /\ phase = "mounted"
    /\ Idle
    /\ phase' = "unmounted"
    /\ shown' = "none"
    /\ chartRef' = FALSE
    /\ listeners' = IF cleanup.has
                    THEN RemoveEventListener(listeners, cleanup.handler)
                    ELSE listeners
    /\ cleanup' = NoCleanup
    /\ instances' = Dispose(instances, chartInstanceRef)
    /\ chartInstanceRef' = 0
    /\ applied' = NoApplied
    /\ UNCHANGED <<data, changes, chartData, resized, everNonEmpty, usedAfterDispose,
                   callback>>

\* ECharts shows the tooltip of an axis position of the applied option.
Hover ==
    /\ phase = "mounted"
    /\ Idle
    /\ applied.called
    /\ \E dataIndex \in 0..(Len(applied.option.xAxis) - 1) :
         callback' = [kind |-> "tooltip", series |-> 0, dataIndex |-> dataIndex,
                      color |-> "",
                      tooltip |-> Formatter(chartData.entries, applied.option,
                                            AxisParams(applied.option, dataIndex))]
    /\ UNCHANGED <<phase, data, changes, chartData, shown, chartRef, chartInstanceRef,
                   instances, listeners, cleanup, applied, resized, everNonEmpty,
                   usedAfterDispose>>

\* ECharts asks the color of the point of series s at an axis position.
PaintPoint ==
    /\ phase = "mounted"
    /\ Idle
    /\ applied.called
    /\ \E s \in 1..Len(applied.option.series) :
         \E dataIndex \in 0..(Len(applied.option.xAxis) - 1) :
            callback' = [kind |-> "color", series |-> s, dataIndex |-> dataIndex,
                         color |-> ItemColor(MapGet(chartData.entries,
                                                    applied.option.series[s].name),
                                             dataIndex),
                         tooltip |-> EmptyTooltip]
    /\ UNCHANGED <<phase, data, changes, chartData, shown, chartRef, chartInstanceRef,
                   instances, listeners, cleanup, applied, resized, everNonEmpty,
                   usedAfterDispose>>

\* The running callback returns its value to ECharts.
Return ==
    /\ ~Idle
    /\ callback' = NoCallback
    /\ UNCHANGED <<phase, data, changes, chartData, shown, chartRef, chartInstanceRef,
                   instances, listeners, cleanup, applied, resized, everNonEmpty,
                   usedAfterDispose>>

Next == Mount \/ SetData \/ Resize \/ Unmount \/ Hover \/ PaintPoint \/ Return
Spec == Init /\ [][Next]_vars

\* The pipeline on one input: the mount renders it, then the callbacks of
\* the applied option are called.
NextPipeline == Mount \/ Hover \/ PaintPoint \/ Return
SpecPipeline == InitPipeline /\ [][NextPipeline]_vars

(***************************************************************************)
(* Properties.  They are stated over the input (`data`) and the results    *)
(* the component left in its state, not over the operators above.          *)
(***************************************************************************)
MetricSet == {MetricKeys[k] : k \in 1..Len(MetricKeys)}

\* The records of the input that carry an object-valued reading under m.
Carriers(m) == {r \in 1..Len(data.items) : data.items[r][m].kind = "object"}

\* The metric names with at least one carrier.
MetricsOfInput == {m \in MetricSet : Carriers(m) # {}}

Rendered == phase = "mounted"
Entries == chartData.entries
EntryNames == {Entries[i].name : i \in 1..Len(Entries)}

\* The samples of a series that lie at timestamp t, as positions.
SamplesAt(values, t) == {k \in 1..Len(values) : values[k].timestamp = t}

\* C1: for a non-empty input the keys of chartData are exactly the metric
\* names that occur as a key other than category with a non-null object
\* value; each key occurs once and has as many samples as there are records
\* with an object-valued reading under it, so bare numbers and nulls add
\* neither a key nor a sample.
C1_KeysAndSampleCounts ==
    (Rendered /\ data.present /\ Len(data.items) > 0) =>
        /\ ~chartData.isNull
        /\ EntryNames = MetricsOfInput
        /\ \A i, j \in 1..Len(Entries) : Entries[i].name = Entries[j].name => i = j
        /\ \A i \in 1..Len(Entries) :
              Len(Entries[i].values) = Cardinality(Carriers(Entries[i].name))

\* One record has a bare number under cpu and null under mem, another has a
\* reading under cpu: cpu is the only key and has one sample.
C1_Witness ==
    /\ Rendered
    /\ \E i, j \in 1..Len(data.items) :
          /\ data.items[i].cpu.kind = "number"
          /\ data.items[i].mem.kind = "null"
          /\ data.items[j].cpu.kind = "object"
    /\ Len(Entries) = 1
    /\ Len(Entries[1].values) = 1

\* The readings of metric m in the order their records arrive.
RECURSIVE ArrivalsFrom(_, _)
ArrivalsFrom(m, r) ==
    IF r > Len(data.items) THEN <<>>
    ELSE (IF data.items[r][m].kind = "object"
          THEN <<[timestamp |-> data.items[r][m].timestamp,
                  text |-> data.items[r][m].value,
                  status |-> data.items[r][m].status]>>
          ELSE <<>>) \o ArrivalsFrom(m, r + 1)

\* The subsequence of the elements of seq whose timestamp is t.
RECURSIVE AtTimestamp(_, _)
AtTimestamp(seq, t) ==
    IF seq = <<>> THEN <<>>
    ELSE (IF Head(seq).timestamp = t THEN <<Head(seq)>> ELSE <<>>) \o AtTimestamp(Tail(seq), t)

\* A sample is the reading it came from: same status, value parsed from its text.
SameSamples(samples, readings) ==
    /\ Len(samples) = Len(readings)
    /\ \A k \in 1..Len(samples) :
          /\ samples[k].status = readings[k].status
          /\ samples[k].value = ParseFloat(readings[k].text)

\* C2: every series of chartData is non-decreasing by timestamp, and the
\* samples of one metric that share a timestamp are all there, in the order
\* their records arrived.
C2_SortedStableNoDedup ==
    Rendered =>
        \A i \in 1..Len(Entries) :
            LET values == Entries[i].values
                arrivals == ArrivalsFrom(Entries[i].name, 1)
            IN /\ \A k \in 1..(Len(values) - 1) :
                      values[k].timestamp <= values[k + 1].timestamp
               /\ \A t \in {arrivals[k].timestamp : k \in 1..Len(arrivals)} :
                      SameSamples(AtTimestamp(values, t), AtTimestamp(arrivals, t))

\* One metric has two different samples at one timestamp and another metric
\* got its two samples in descending order of timestamp.
C2_Witness ==
    /\ Rendered
    /\ Len(Entries) = 2
    /\ \E i, j \in 1..2 :
          /\ Len(Entries[i].values) = 2
          /\ Entries[i].values[1].timestamp = Entries[i].values[2].timestamp
          /\ Entries[i].values[1].value # Entries[i].values[2].value
          /\ Len(Entries[j].values) = 2
          /\ Entries[j].values[1].timestamp < Entries[j].values[2].timestamp
          /\ data.items[1][Entries[j].name].timestamp
                > data.items[2][Entries[j].name].timestamp

Option == applied.option

\* C3: the unified timeline is the ascending duplicate-free union of the
\* timestamps of all metrics; there is one series per metric and its data
\* array has one entry per timeline position, the value of a sample of the
\* metric at that timestamp when there is one and null otherwise.
C3_TimelineAndAlignedData ==
    (Rendered /\ applied.called) =>
        /\ \A p \in 1..(Len(Option.xAxis) - 1) : Option.xAxis[p] < Option.xAxis[p + 1]
        /\ {Option.xAxis[p] : p \in 1..Len(Option.xAxis)}
              = UNION {{Entries[i].values[k].timestamp : k \in 1..Len(Entries[i].values)} :
                          i \in 1..Len(Entries)}
        /\ Len(Option.series) = Len(Entries)
        /\ \A s \in 1..Len(Option.series) :
              /\ Option.series[s].name = Entries[s].name
              /\ Len(Option.series[s].data) = Len(Option.xAxis)
              /\ \A p \in 1..Len(Option.xAxis) :
                    LET at == SamplesAt(Entries[s].values, Option.xAxis[p])
                    IN IF at = {}
                       THEN Option.series[s].data[p] = Null
                       ELSE \E k \in at :
                               Option.series[s].data[p] = Entries[s].values[k].value

\* A series has a value at the first timeline position and a gap at the
\* second, where another series has a value.
C3_Witness ==
    /\ Rendered
    /\ applied.called
    /\ Len(Option.xAxis) = 2
    /\ \E s, u \in 1..Len(Option.series) :
          /\ Option.series[s].data[1] # Null
          /\ Option.series[s].data[2] = Null
          /\ Option.series[u].data[2] # Null

\* C4: the color of the point of a metric at a timeline position where the
\* metric has a sample is the table color of the status of a sample of the
\* metric at that timestamp (the default color for a status outside the
\* table), whatever gaps the metric has at earlier positions.
C4_ColorOfSampleAtPosition ==
    (Rendered /\ callback.kind = "color") =>
        LET values == MapGet(Entries, Option.series[callback.series].name)
            at == SamplesAt(values, Option.xAxis[callback.dataIndex + 1])
        IN at # {} => \E k \in at : callback.color = StatusColor(values[k].status)

\* The names of the metrics, in series order, that have a sample at t.
RECURSIVE NamesWithSampleAt(_, _)
NamesWithSampleAt(t, s) ==
    IF s > Len(Option.series) THEN <<>>
    ELSE (IF SamplesAt(MapGet(Entries, Option.series[s].name), t) # {}
          THEN <<Option.series[s].name>> ELSE <<>>) \o NamesWithSampleAt(t, s + 1)

\* C5: the tooltip of a timeline position starts with the date of that
\* timestamp and then has one line for each metric with a sample at exactly
\* that timestamp and none for a metric with a gap there; a line shows the
\* metric's name and the value and status of a sample of it at that timestamp.
C5_TooltipLines ==
    (Rendered /\ callback.kind = "tooltip") =>
        LET t == Option.xAxis[callback.dataIndex + 1]
            lines == callback.tooltip.lines
            names == NamesWithSampleAt(t, 1)
        IN /\ ~callback.tooltip.empty
           /\ callback.tooltip.date = t
           /\ Len(lines) = Len(names)
           /\ \A l \in 1..Len(lines) :
                 /\ lines[l].seriesName = names[l]
                 /\ LET values == MapGet(Entries, names[l])
                    IN \E k \in SamplesAt(values, t) :
                          /\ lines[l].value = values[k].value
                          /\ lines[l].status = values[k].status

\* Two metrics, the hovered position has a sample of one and a gap of the
\* other: the tooltip has one line.
C5_Witness ==
    /\ Rendered
    /\ callback.kind = "tooltip"
    /\ Len(Option.series) = 2
    /\ Len(callback.tooltip.lines) = 1
    /\ \E s \in 1..2 : Option.series[s].data[callback.dataIndex + 1] = Null

\* C10: the value a tooltip line prints for a metric is the value the
\* metric's aligned data array holds at the hovered position, also when the
\* metric has several samples at that timestamp.
C10_TooltipValueIsPlottedValue ==
    (Rendered /\ callback.kind = "tooltip") =>
        \A l \in 1..Len(callback.tooltip.lines) :
            \A s \in 1..Len(Option.series) :
                Option.series[s].name = callback.tooltip.lines[l].seriesName =>
                    callback.tooltip.lines[l].value
                        = Option.series[s].data[callback.dataIndex + 1]

\* The input is absent, empty, or has no record with a reading.
InputHasNoMetric ==
    \/ ~data.present
    \/ Len(data.items) = 0
    \/ \A r \in 1..Len(data.items) : \A m \in MetricSet : data.items[r][m].kind # "object"

\* C6: while the input is absent, empty or without a metric-bearing record
\* the placeholder is shown and the commit of that input applied no option;
\* no instance exists before an input with a metric was rendered.
C6_NoDataNoSpec ==
    /\ (Rendered /\ InputHasNoMetric) => (shown = "placeholder" /\ ~applied.called)
    /\ ~everNonEmpty => instances = <<>>

\* A non-empty input without a reading is rendered after a chart was shown:
\* chartData is an empty Map and an instance exists.
C6_Witness ==
    /\ Rendered
    /\ data.present /\ Len(data.items) > 0
    /\ ~chartData.isNull /\ Len(chartData.entries) = 0
    /\ instances # <<>>
    /\ shown = "placeholder"

\* C7: at most one instance is made per mounted component, it exists from
\* the first input with a non-empty mapping on, every option is applied to
\* it, it is disposed once by the unmount and not before, and a disposed
\* instance gets neither an option nor a resize.
C7_CreateOnceDisposeOnce ==
    /\ Len(instances) <= 1
    /\ (phase # "init") => (everNonEmpty <=> Len(instances) = 1)
    /\ applied.called => (applied.instance = 1 /\ chartInstanceRef = 1 /\ ~applied.disposed)
    /\ \A i \in 1..Len(instances) :
          instances[i].disposeCalls = IF phase = "unmounted" THEN 1 ELSE 0
    /\ ~usedAfterDispose

\* A component that showed a chart, then got an input without a metric, was
\* unmounted: its instance is disposed once.
C7_Witness ==
    /\ phase = "unmounted"
    /\ changes >= 1
    /\ InputHasNoMetric
    /\ Len(instances) = 1
    /\ instances[1].disposeCalls = 1
    /\ chartInstanceRef = 0

\* C8: at most one resize listener of the component is registered at any
\* moment, it is the one the pending cleanup removes, and none is left after
\* the unmount.
C8_ListenersMatched ==
    /\ Len(listeners) <= 1
    /\ listeners # <<>> => (cleanup.has /\ listeners = <<cleanup.handler>>)
    /\ phase \in {"init", "unmounted"} => listeners = <<>>

\* The chart effect ran again after an input change: the one listener
\* registered is the one of the later run.
C8_Witness ==
    /\ Rendered
    /\ changes >= 2
    /\ Len(listeners) = 1
    /\ listeners[1].run = changes

\* C9: an option is only applied to an instance whose surface is the one
\* mounted now, never to an instance initialised before the placeholder
\* replaced the chart surface.
C9_AppliedToLiveSurface ==
    applied.called => applied.surface = "live"

====
